---------------------------- MODULE Spec2Model ----------------------------
(***************************************************************************)
(* RegSeek client script (site/js/app.js): dataset loading, the search /   *)
(* filter / sort view controller with its debounced search input, and the  *)
(* detail modal.                                                           *)
(*                                                                         *)
(* JavaScript strings are sequences of one-character strings, so that      *)
(* toLowerCase, includes, startsWith, join and localeCompare are computed  *)
(* and not assumed.  An absent optional field of a record is a field that  *)
(* is not in the record's DOMAIN.  filteredArtifacts, the sorted copy and   *)
(* the cards of the grid hold references to the objects of allArtifacts:   *)
(* a reference is the object's position in allArtifacts.                   *)
(***************************************************************************)
EXTENDS Integers, Sequences, FiniteSets, TLC

VARIABLES
    pc,                 \* progress of the page load / loadArtifacts
    fetchCount,         \* number of fetch('build/artifacts.json') calls issued
    allArtifacts,       \* app.js:2
    filteredArtifacts,  \* app.js:3
    currentFilters,     \* app.js:4-13
    searchValue,        \* value of the #search input
    selects,            \* values of the seven filter <select> elements
    options,            \* option values appended by populateFilterOptions
    activeBtns,         \* data-filter of the .filter-btn elements of class active
    sortValue,          \* value of #sort-select
    grid,               \* content of #registry-grid
    visibleCount,       \* text of #visible-artifacts
    listeners,          \* TRUE once setupEventListeners has run
    timeout,            \* the debounce closure's timer handle (app.js:878)
    timers,             \* pending setTimeout timers: [id, due]
    modal,              \* #modal: display, sections and navigation classes
    bodyOverflow,       \* document.body.style.overflow
    docListeners,       \* number of tool-link click listeners on document
    toolOpens,          \* window.open calls made by the last tool-link click
    burst,              \* history: keystrokes / timer recomputations of the current burst,
                        \* and whether clear-all ran while its timer was pending
    lastEvent           \* history: the handler that ran last

vars == <<pc, fetchCount, allArtifacts, filteredArtifacts, currentFilters,
          searchValue, selects, options, activeBtns, sortValue, grid, visibleCount,
          listeners, timeout, timers, modal, bodyOverflow, docListeners, toolOpens,
          burst, lastEvent>>

---------------------------------------------------------------------------
(* Strings                                                                 *)

Str0 == <<>>

Range(seq) == {seq[i] : i \in 1..Len(seq)}

LowerOf ==
    [A |-> "a", B |-> "b", C |-> "c", D |-> "d", E |-> "e", F |-> "f", G |-> "g",
     H |-> "h", I |-> "i", J |-> "j", K |-> "k", L |-> "l", M |-> "m", N |-> "n",
     O |-> "o", P |-> "p", Q |-> "q", R |-> "r", S |-> "s", T |-> "t", U |-> "u",
     V |-> "v", W |-> "w", X |-> "x", Y |-> "y", Z |-> "z"]

IsUpper(c) == c \in DOMAIN LowerOf

LowerChar(c) == IF IsUpper(c) THEN LowerOf[c] ELSE c

\* String.prototype.toLowerCase
ToLowerCase(s) == [i \in 1..Len(s) |-> LowerChar(s[i])]

\* String.prototype.includes
Includes(text, s) ==
    \E i \in 0..(Len(text) - Len(s)) : SubSeq(text, i + 1, i + Len(s)) = s

\* String.prototype.startsWith
StartsWith(text, s) ==
    /\ Len(s) <= Len(text)
    /\ SubSeq(text, 1, Len(s)) = s

\* Array.prototype.join(' ')
RECURSIVE JoinSpace(_)
JoinSpace(parts) ==
    IF Len(parts) = 0 THEN Str0
    ELSE IF Len(parts) = 1 THEN parts[1]
    ELSE parts[1] \o <<" ">> \o JoinSpace(Tail(parts))

\* Collation order of String.prototype.localeCompare: white space and
\* punctuation, then digits, then letters; a letter's case only breaks ties.
CollationOrder ==
    <<" ", "-", "\\", "0", "1", "2", "3", "4", "5", "6", "7", "8", "9",
      "a", "b", "c", "d", "e", "f", "g", "h", "i", "j", "k", "l", "m",
      "n", "o", "p", "q", "r", "s", "t", "u", "v", "w", "x", "y", "z">>

WeightOf ==
    [c \in Range(CollationOrder) |->
        CHOOSE i \in 1..Len(CollationOrder) : CollationOrder[i] = c]

PrimaryWeight(c) == WeightOf[LowerChar(c)]

CaseWeight(c) == IF IsUpper(c) THEN 1 ELSE 0

Sign(n) == IF n < 0 THEN -1 ELSE IF n > 0 THEN 1 ELSE 0

\* Lexicographic comparison of two weight sequences: -1, 0 or 1.
RECURSIVE LexCompare(_, _)
LexCompare(u, v) ==
    IF Len(u) = 0 /\ Len(v) = 0 THEN 0
    ELSE IF Len(u) = 0 THEN -1
    ELSE IF Len(v) = 0 THEN 1
    ELSE IF u[1] # v[1] THEN Sign(u[1] - v[1])
    ELSE LexCompare(Tail(u), Tail(v))

\* The combining acute accent U+0301 (written here with the spacing accent),
\* and the canonical decomposition of the precomposed letters: the collation
\* compares canonically equivalent strings as equal.
CombiningAcute == "´"

Decomposition == "é" :> <<"e", CombiningAcute>>

IsMark(c) == c = CombiningAcute

RECURSIVE Decompose(_)
Decompose(s) ==
    IF Len(s) = 0 THEN Str0
    ELSE (IF s[1] \in DOMAIN Decomposition THEN Decomposition[s[1]] ELSE <<s[1]>>)
         \o Decompose(Tail(s))

IsBase(c) == ~IsMark(c)

\* a.localeCompare(b): the letters first, then the accents, then the case.
LocaleCompare(a, b) ==
    LET da == Decompose(a)
        db == Decompose(b)
        ba == SelectSeq(da, IsBase)
        bb == SelectSeq(db, IsBase)
        pa == [i \in 1..Len(ba) |-> PrimaryWeight(ba[i])]
        pb == [i \in 1..Len(bb) |-> PrimaryWeight(bb[i])]
        sa == [i \in 1..Len(da) |-> IF IsMark(da[i]) THEN 1 ELSE 0]
        sb == [i \in 1..Len(db) |-> IF IsMark(db[i]) THEN 1 ELSE 0]
        ca == [i \in 1..Len(ba) |-> CaseWeight(ba[i])]
        cb == [i \in 1..Len(bb) |-> CaseWeight(bb[i])]
        primary == LexCompare(pa, pb)
        secondary == LexCompare(sa, sb)
    IN  IF primary # 0 THEN primary
        ELSE IF secondary # 0 THEN secondary
        ELSE LexCompare(ca, cb)

\* JavaScript x || y on numbers
OrElse(x, y) == IF x # 0 THEN x ELSE y

---------------------------------------------------------------------------
(* Values of the dataset and of the controls                               *)

execution == <<"e", "x", "e", "c", "u", "t", "i", "o", "n">>
network == <<"n", "e", "t", "w", "o", "r", "k">>
high == <<"h", "i", "g", "h">>
medium == <<"m", "e", "d", "i", "u", "m">>
low == <<"l", "o", "w">>
unspecified == <<"u", "n", "s", "p", "e", "c", "i", "f", "i", "e", "d">>
yes == <<"y", "e", "s">>
no == <<"n", "o">>
all == <<"a", "l", "l">>
maybe == <<"m", "a", "y", "b", "e">>
HKLM == <<"H", "K", "L", "M">>
HKCU == <<"H", "K", "C", "U">>
incidentResponse == <<"i", "r">>
persistenceTech == <<"p", "e">>
win10 == <<"1", "0">>
win11 == <<"1", "1">>
NoDate == <<"0", "0", "0", "0", "-", "0", "0", "-", "0", "0">>

\* The dataset of the specification's end-to-end scenario (A, B, C), with the
\* optional fields spread so that each is present in one record and absent
\* from another.
RecA ==
    [title |-> <<"Z", "e", "d">>, category |-> execution, description |-> <<"r", "u", "n", " ", "k", "e", "y">>,
     paths |-> << <<"H", "K", "L", "M", "\\", "R", "u", "n">> >>,
     metadata |-> [criticality |-> high, investigation_types |-> <<incidentResponse>>,
                   windows_versions |-> <<win10>>, tags |-> << <<"A", "u", "t", "o">> >>],
     details |-> [tools |-> << [name |-> <<"R", "E", "C", "m", "d">>,
                                url |-> <<"h", "t", "t", "p", "s", ":", "/", "/", "t">>] >>],
     contribution |-> [date_added |-> <<"2", "0", "2", "4", "-", "0", "2", "-", "0", "1">>]]

RecB ==
    [title |-> <<"A", "l", "p", "h", "a">>, category |-> execution, description |-> Str0,
     paths |-> << <<"H", "K", "C", "U", "\\", "X", "\\", "H", "K", "L", "M", "\\", "Y">>, <<"H", "K", "L", "M", "X", "\\", "Z">> >>,
     search_tags |-> << <<"T", "E", "A", "M", "S">> >>,
     metadata |-> [criticality |-> low,
                   investigation_types |-> <<incidentResponse, persistenceTech>>],
     details |-> [what |-> <<"m", "r", "u">>]]

RecC ==
    [title |-> <<"M", "i", "d">>, category |-> network, description |-> <<"N", "e", "t", " ", "R", "u", "n">>,
     metadata |-> [criticality |-> high, windows_versions |-> <<win10>>],
     contribution |-> [version |-> <<"1">>]]

RecD ==
    [title |-> <<"a", "l", "p", "h", "a">>, category |-> network, description |-> <<"u", "s", "b">>,
     paths |-> << <<"H", "K", "L", "M">> >>,
     metadata |-> [criticality |-> medium, investigation_types |-> <<persistenceTech>>,
                   windows_versions |-> <<win11, win10>>],
     details |-> [tools |-> <<>>],
     contribution |-> [date_added |-> <<"2", "0", "2", "3", "-", "1", "1", "-", "3", "0">>]]

RecE ==
    [title |-> <<"M", "i", "d">>, category |-> network, description |-> <<"x">>,
     paths |-> <<>>,
     contribution |-> [version |-> <<"1">>]]

\* A record whose metadata holds tags only; one tag has a letter (sharp s)
\* whose upper-case form is two letters.
RecF ==
    [title |-> <<"M", "i", "d">>, category |-> execution, description |-> <<"y">>,
     metadata |-> [tags |-> << <<"M", "a", "ß">> >>]]

\* Two records whose titles are the same text in its precomposed and in its
\* decomposed form; the first shares its date with RecA, the second has no
\* metadata and an earlier date.
RecG ==
    [title |-> <<"é">>, category |-> execution, description |-> <<"z">>,
     metadata |-> [criticality |-> medium],
     contribution |-> [date_added |-> <<"2", "0", "2", "4", "-", "0", "2", "-", "0", "1">>]]

RecH ==
    [title |-> <<"e", CombiningAcute>>, category |-> execution, description |-> <<"z">>,
     contribution |-> [date_added |-> <<"2", "0", "2", "3", "-", "1", "1", "-", "3", "0">>]]

\* A record with every optional field filled in, and one whose optional
\* lists are there but empty.
RecFull ==
    [title |-> <<"F", "u", "l", "l">>, category |-> execution, description |-> <<"d">>,
     paths |-> << <<"H", "K", "C", "U", "\\", "R", "u", "n">> >>,
     limitations |-> << <<"l">> >>,
     correlation |-> [required_for_definitive_conclusions |-> << <<"c">> >>,
                      strengthens_evidence |-> << <<"s">> >>],
     details |-> [what |-> <<"w">>, forensic_value |-> <<"v">>, structure |-> <<"s">>,
                  examples |-> << <<"e">> >>,
                  tools |-> << [chars |-> <<"R", "E", "C", "m", "d">>],
                               [name |-> <<"t">>] >>],
     metadata |-> [criticality |-> high, investigation_types |-> <<incidentResponse>>,
                   windows_versions |-> <<win10>>,
                   references |-> << [title |-> <<"r">>] >>],
     author |-> [name |-> <<"n">>, github |-> <<"g">>],
     contribution |-> [date_added |-> <<"2", "0", "2", "4", "-", "0", "2", "-", "0", "1">>,
                       version |-> <<"1">>]]

RecSparse ==
    [title |-> <<"S", "p", "a", "r", "s", "e">>, category |-> network, description |-> <<"d">>,
     limitations |-> <<>>,
     correlation |-> [strengthens_evidence |-> <<>>],
     details |-> [examples |-> <<>>, tools |-> <<>>],
     metadata |-> [criticality |-> low, references |-> <<>>],
     author |-> [github |-> <<"g">>],
     contribution |-> [version |-> <<"1">>]]

---------------------------------------------------------------------------
(* Filter engine: the predicate of allArtifacts.filter in performSearch    *)

\* currentFilters as declared at app.js:4-13 and reset at app.js:689-698
EmptyFilters ==
    [search |-> Str0, category |-> Str0, criticality |-> Str0,
     investigationPhase |-> Str0, attackTechnique |-> Str0,
     windowsVersion |-> Str0, hive |-> Str0, hasTools |-> Str0]

\* A JavaScript string is truthy when it is not empty.
Truthy(s) == s # Str0

\* artifact[f] || []
ListOr(artifact, f) == IF f \in DOMAIN artifact THEN artifact[f] ELSE <<>>

\* artifact[obj]?.[f] || []
NestedListOr(artifact, obj, f) ==
    IF obj \in DOMAIN artifact THEN ListOr(artifact[obj], f) ELSE <<>>

\* artifact[obj]?.[f], as a sequence of zero (undefined) or one value
Nested(artifact, obj, f) ==
    IF obj \in DOMAIN artifact /\ f \in DOMAIN artifact[obj]
    THEN <<artifact[obj][f]>> ELSE <<>>

Contains(list, v) == \E i \in 1..Len(list) : list[i] = v

\* app.js:716-723
SearchableText(artifact) ==
    ToLowerCase(JoinSpace(<<artifact.title, artifact.description, artifact.category>>
                          \o ListOr(artifact, "paths")
                          \o ListOr(artifact, "search_tags")
                          \o NestedListOr(artifact, "metadata", "tags")))

\* app.js:715-728
SearchPasses(artifact, f) ==
    Truthy(f.search) => Includes(SearchableText(artifact), f.search)

\* A category test that forgets the unset filter
CategoryPassesAlways(artifact, f) == artifact.category = f.category

\* app.js:731-733
CategoryPasses(artifact, f) ==
    ~(Truthy(f.category) /\ artifact.category # f.category)

\* A criticality test that lets a record without criticality through
CriticalityPassesAbsent(artifact, f) ==
    Truthy(f.criticality) =>
        Nested(artifact, "metadata", "criticality") \in {<<>>, <<f.criticality>>}

\* app.js:736-741
CriticalityPasses(artifact, f) ==
    Truthy(f.criticality) =>
        Nested(artifact, "metadata", "criticality") = <<f.criticality>>

\* app.js:744-749
PhasePasses(artifact, f) ==
    Truthy(f.investigationPhase) =>
        Contains(NestedListOr(artifact, "metadata", "investigation_types"),
                 f.investigationPhase)

\* An attack-technique facet that is never tested
TechniquePassesAlways(artifact, f) == TRUE

\* app.js:752-757
TechniquePasses(artifact, f) ==
    Truthy(f.attackTechnique) =>
        Contains(NestedListOr(artifact, "metadata", "investigation_types"),
                 f.attackTechnique)

\* app.js:760-765
VersionPasses(artifact, f) ==
    Truthy(f.windowsVersion) =>
        Contains(NestedListOr(artifact, "metadata", "windows_versions"),
                 f.windowsVersion)

\* A hive test by substring instead of prefix
HivePassesAnywhere(artifact, f) ==
    Truthy(f.hive) =>
        LET paths == ListOr(artifact, "paths")
        IN  \E i \in 1..Len(paths) : Includes(paths[i], f.hive \o <<"\\">>)

\* app.js:768-774
HivePasses(artifact, f) ==
    Truthy(f.hive) =>
        LET paths == ListOr(artifact, "paths")
        IN  \E i \in 1..Len(paths) : StartsWith(paths[i], f.hive \o <<"\\">>)

\* A tools test that reads details.tools without a default: a record
\* without the field fails the filter whatever the value
HasToolsPassesStrict(artifact, f) ==
    Truthy(f.hasTools) =>
        /\ Nested(artifact, "details", "tools") # <<>>
        /\ LET hasTools == Len(artifact.details.tools) > 0
           IN  /\ ~(f.hasTools = yes /\ ~hasTools)
               /\ ~(f.hasTools = no /\ hasTools)

\* app.js:777-786
HasToolsPasses(artifact, f) ==
    Truthy(f.hasTools) =>
        LET tools == NestedListOr(artifact, "details", "tools")
            hasTools == Len(tools) > 0
        IN  /\ ~(f.hasTools = yes /\ ~hasTools)
            /\ ~(f.hasTools = no /\ hasTools)

\* The callback of allArtifacts.filter (app.js:713-789): each test returns
\* false as soon as it fails, the record passes when none did.
Passes(artifact, f) ==
    /\ SearchPasses(artifact, f)
    /\ CategoryPasses(artifact, f)
    /\ CriticalityPasses(artifact, f)
    /\ PhasePasses(artifact, f)
    /\ TechniquePasses(artifact, f)
    /\ VersionPasses(artifact, f)
    /\ HivePasses(artifact, f)
    /\ HasToolsPasses(artifact, f)

\* References to all objects of a list, in its order
Refs(artifacts) == [i \in 1..Len(artifacts) |-> i]

\* The objects a list of references points to
Deref(artifacts, refs) == [k \in 1..Len(refs) |-> artifacts[refs[k]]]

\* Array.prototype.filter
FilterArtifacts(artifacts, f) ==
    SelectSeq(Refs(artifacts), LAMBDA i : Passes(artifacts[i], f))

---------------------------------------------------------------------------
(* Sort engine: the comparator of handleSort and Array.prototype.sort      *)

\* A rank table with the ranks of medium and low exchanged
CriticalityOrderSwapped(c) ==
    IF c = high THEN 3 ELSE IF c = medium THEN 1 ELSE IF c = low THEN 2 ELSE 0

\* app.js:813
CriticalityOrder(c) ==
    IF c = high THEN 3 ELSE IF c = medium THEN 2 ELSE IF c = low THEN 1 ELSE 0

\* a.metadata?.criticality || 'unspecified'
CritOf(a) ==
    LET c == Nested(a, "metadata", "criticality")
    IN  IF c # <<>> /\ Truthy(c[1]) THEN c[1] ELSE unspecified

\* A default date that is later than every date
DateOfMissingLatest(a) ==
    LET d == Nested(a, "contribution", "date_added")
    IN  IF d # <<>> /\ Truthy(d[1]) THEN d[1]
        ELSE <<"9", "9", "9", "9", "-", "9", "9", "-", "9", "9">>

\* a.contribution?.date_added || '0000-00-00'
DateOf(a) ==
    LET d == Nested(a, "contribution", "date_added")
    IN  IF d # <<>> /\ Truthy(d[1]) THEN d[1] ELSE NoDate

sortTitle == <<"t", "i", "t", "l", "e">>
sortTitleDesc == <<"t", "i", "t", "l", "e", "-", "d", "e", "s", "c">>
sortCategory == <<"c", "a", "t", "e", "g", "o", "r", "y">>
sortCriticality == <<"c", "r", "i", "t", "i", "c", "a", "l", "i", "t", "y">>
sortRecent == <<"r", "e", "c", "e", "n", "t">>
sortBogus == <<"s", "i", "z", "e">>

\* A comparator whose default case compares the titles
SortCompareDefaultTitle(sortBy, a, b) ==
    IF sortBy = sortTitleDesc THEN LocaleCompare(b.title, a.title)
    ELSE IF sortBy = sortCategory THEN
        OrElse(LocaleCompare(a.category, b.category), LocaleCompare(a.title, b.title))
    ELSE IF sortBy = sortCriticality THEN
        OrElse(CriticalityOrder(CritOf(b)) - CriticalityOrder(CritOf(a)),
               LocaleCompare(a.title, b.title))
    ELSE IF sortBy = sortRecent THEN
        OrElse(LocaleCompare(DateOf(b), DateOf(a)), LocaleCompare(a.title, b.title))
    ELSE LocaleCompare(a.title, b.title)

\* The comparator of app.js:804-824
SortCompare(sortBy, a, b) ==
    IF sortBy = sortTitle THEN LocaleCompare(a.title, b.title)
    ELSE IF sortBy = sortTitleDesc THEN LocaleCompare(b.title, a.title)
    ELSE IF sortBy = sortCategory THEN
        OrElse(LocaleCompare(a.category, b.category), LocaleCompare(a.title, b.title))
    ELSE IF sortBy = sortCriticality THEN
        OrElse(CriticalityOrder(CritOf(b)) - CriticalityOrder(CritOf(a)),
               LocaleCompare(a.title, b.title))
    ELSE IF sortBy = sortRecent THEN
        OrElse(LocaleCompare(DateOf(b), DateOf(a)), LocaleCompare(a.title, b.title))
    ELSE 0

\* An unstable sort: x goes before the elements it compares equal to
RECURSIVE InsertSortedBefore(_, _, _, _)
InsertSortedBefore(artifacts, sortBy, sorted, x) ==
    IF Len(sorted) = 0 THEN <<x>>
    ELSE IF SortCompare(sortBy, artifacts[sorted[Len(sorted)]], artifacts[x]) < 0
         THEN Append(sorted, x)
    ELSE Append(InsertSortedBefore(artifacts, sortBy,
                                   SubSeq(sorted, 1, Len(sorted) - 1), x),
                sorted[Len(sorted)])

\* Array.prototype.sort is stable: x goes after every element that does not
\* compare greater than it.
RECURSIVE InsertSorted(_, _, _, _)
InsertSorted(artifacts, sortBy, sorted, x) ==
    IF Len(sorted) = 0 THEN <<x>>
    ELSE IF SortCompare(sortBy, artifacts[sorted[Len(sorted)]], artifacts[x]) <= 0
         THEN Append(sorted, x)
    ELSE Append(InsertSorted(artifacts, sortBy, SubSeq(sorted, 1, Len(sorted) - 1), x),
                sorted[Len(sorted)])

RECURSIVE SortFrom(_, _, _, _)
SortFrom(artifacts, sortBy, sorted, rest) ==
    IF Len(rest) = 0 THEN sorted
    ELSE SortFrom(artifacts, sortBy, InsertSorted(artifacts, sortBy, sorted, rest[1]),
                  Tail(rest))

\* A sort that takes the whole dataset instead of the list it is given
SortArtifactsAll(artifacts, refs, sortBy) ==
    SortFrom(artifacts, sortBy, <<>>, Refs(artifacts))

\* [...refs].sort(comparator), the references pointing into artifacts
SortArtifacts(artifacts, refs, sortBy) == SortFrom(artifacts, sortBy, <<>>, refs)

---------------------------------------------------------------------------
(* The document served at build/artifacts.json                             *)

\* What the build step emits for a list of records: the records, the distinct
\* categories and the statistics that populateFilterOptions reads.
MakeDoc(artifacts) ==
    [artifacts |-> artifacts,
     categories |-> {a.category : a \in Range(artifacts)},
     statistics |->
        [total |-> Len(artifacts),
         windows_versions |->
            UNION {Range(NestedListOr(a, "metadata", "windows_versions")) :
                       a \in Range(artifacts)}]]

\* The documents the fetch can deliver to the page.
Documents == {MakeDoc(<<RecA, RecB, RecC>>)}

---------------------------------------------------------------------------
(* Controls of the page                                                    *)

SelectIds ==
    {"category", "criticality", "investigationPhase", "attackTechnique",
     "windowsVersion", "hive", "hasTools"}

\* The seven selects at their first option (value '').
EmptySelects ==
    [category |-> Str0, criticality |-> Str0, investigationPhase |-> Str0,
     attackTechnique |-> Str0, windowsVersion |-> Str0, hive |-> Str0,
     hasTools |-> Str0]

\* The options of the page markup that the user picks; those of category and
\* Windows version are the ones populateFilterOptions appends.
StaticOptions ==
    [category |-> {Str0},
     criticality |-> {Str0, low},
     investigationPhase |-> {Str0},
     attackTechnique |-> {Str0},
     windowsVersion |-> {Str0},
     hive |-> {Str0},
     hasTools |-> {Str0}]

NoOptions == [category |-> {}, windowsVersion |-> {}]

OptionsOf(id) ==
    StaticOptions[id] \cup (IF id \in DOMAIN options THEN options[id] ELSE {})

\* data-filter values of the quick-category buttons
QuickFilters == {all, execution, network}

\* Values of the sort selector: the unset first option and the five keys.
SortKeys == {Str0, sortTitle, sortCriticality}

\* Texts a user types into the search box.
SearchTexts == {Str0, <<"R", "u", "n">>}

Sections ==
    {"overview", "limitations", "correlation", "structure", "examples", "tools",
     "investigation", "references", "contribution"}

\* debounce(performSearch, 300): the delay in milliseconds
Wait == 300

\* Keystrokes counted in one burst (the count saturates)
MaxKeys == 2

\* Detail views opened in one page session
MaxOpens == 2

\* What one section of the detail view shows: the number of data items
\* (texts, list entries) and whether a placeholder paragraph is written.
\* Most tools of a record
MaxTools == 2

NoSection == [items |-> 0, placeholder |-> FALSE]

\* #modal before the first opening: hidden, no section in it.
NoModal ==
    [display |-> "none", artifact |-> 0, sections |-> {}, nav |-> {},
     content |-> [s \in Sections |-> NoSection]]

---------------------------------------------------------------------------
(* Initial state: the script has been evaluated, the page is not loaded    *)

Init ==
    /\ pc = "page"
    /\ fetchCount = 0
    /\ allArtifacts = <<>>
    /\ filteredArtifacts = <<>>
    /\ currentFilters = EmptyFilters
    /\ searchValue = Str0
    /\ selects = EmptySelects
    /\ options = NoOptions
    /\ activeBtns = {all}
    /\ sortValue = Str0
    /\ grid = [kind |-> "blank", cards |-> <<>>]
    /\ visibleCount = 0
    /\ listeners = FALSE
    /\ timeout = 0
    /\ timers = {}
    /\ modal = NoModal
    /\ bodyOverflow = ""
    /\ docListeners = 0
    /\ toolOpens = 0
    /\ burst = [keys |-> 0, fires |-> 0, quiet |-> 0, cleared |-> FALSE]
    /\ lastEvent = "none"

viewVars == <<currentFilters, filteredArtifacts, searchValue, selects, activeBtns,
              sortValue, grid, visibleCount, timeout, timers, burst>>
modalVars == <<modal, bodyOverflow, docListeners, toolOpens>>
loadVars == <<pc, fetchCount, allArtifacts, options, listeners>>

---------------------------------------------------------------------------
(* Rendering                                                               *)

\* renderArtifacts(artifacts), app.js:70-90: the new content of the grid
RenderedGrid(artifacts) ==
    IF Len(artifacts) = 0 THEN [kind |-> "empty-state", cards |-> <<>>]
    ELSE [kind |-> "cards", cards |-> artifacts]

\* renderArtifacts(artifacts): the text of #visible-artifacts afterwards.  The
\* empty list returns at app.js:81, before updateVisibleCount at app.js:89.
RenderedCount(artifacts, shown) ==
    IF Len(artifacts) = 0 THEN shown ELSE Len(artifacts)

RenderArtifacts(artifacts) ==
    /\ grid' = RenderedGrid(artifacts)
    /\ visibleCount' = RenderedCount(artifacts, visibleCount)

\* A showError that finds no grid to write to
ShowErrorNowhere == UNCHANGED grid

\* showError(message), app.js:864-874
ShowError == grid' = [kind |-> "error", cards |-> <<>>]

---------------------------------------------------------------------------
(* Loading: DOMContentLoaded, loadArtifacts, init                          *)

\* app.js:911-918 and loadArtifacts up to its first await (app.js:18)
PageLoaded ==
    /\ pc = "page"
    /\ pc' = "fetching"
    /\ fetchCount' = fetchCount + 1
    /\ lastEvent' = "page-loaded"
    /\ UNCHANGED <<allArtifacts, options, listeners>>
    /\ UNCHANGED <<viewVars, modalVars>>

\* What the catch clause does (app.js:29-32)
CatchError(why) ==
    /\ pc' = "failed"
    /\ ShowError
    /\ lastEvent' = why
    /\ UNCHANGED <<fetchCount, allArtifacts, options, listeners>>
    /\ UNCHANGED <<currentFilters, filteredArtifacts, searchValue, selects, activeBtns,
                   sortValue, visibleCount, timeout, timers, burst>>
    /\ UNCHANGED modalVars

\* The fetch promise rejects (network error): the await at app.js:18 throws.
FetchRejects ==
    /\ pc = "fetching"
    /\ CatchError("fetch-rejected")

\* The fetch resolves: a non-success status throws at app.js:19-21, a
\* success goes on to response.json().
FetchResolves(ok) ==
    /\ pc = "fetching"
    /\ IF ok
       THEN /\ pc' = "parsing"
            /\ lastEvent' = "fetch-ok"
            /\ UNCHANGED <<fetchCount, allArtifacts, options, listeners>>
            /\ UNCHANGED <<viewVars, modalVars>>
       ELSE CatchError("http-error")

\* response.json() rejects: the body is not JSON (app.js:22).
JsonRejects ==
    /\ pc = "parsing"
    /\ CatchError("json-error")

\* populateFilterOptions(data), app.js:45-67
PopulatedOptions(data) ==
    [category |-> options.category \cup data.categories,
     windowsVersion |-> options.windowsVersion \cup data.statistics.windows_versions]

\* response.json() resolves with the document; app.js:23-28 and init(data),
\* app.js:36-42.  updateStats writes filteredArtifacts.length to
\* #visible-artifacts (app.js:843) after renderArtifacts.
JsonResolves(data) ==
    /\ pc = "parsing"
    /\ pc' = "ready"
    /\ allArtifacts' = data.artifacts
    /\ options' = PopulatedOptions(data)
    /\ filteredArtifacts' = Refs(data.artifacts)
    /\ grid' = RenderedGrid(Refs(data.artifacts))
    /\ visibleCount' = Len(data.artifacts)
    /\ listeners' = TRUE
    /\ lastEvent' = "init"
    /\ UNCHANGED fetchCount
    /\ UNCHANGED <<currentFilters, searchValue, selects, activeBtns, sortValue,
                   timeout, timers, burst>>
    /\ UNCHANGED modalVars

NextLoad ==
    \/ PageLoaded
    \/ FetchRejects
    \/ \E ok \in BOOLEAN : FetchResolves(ok)
    \/ JsonRejects
    \/ \E data \in Documents : JsonResolves(data)

---------------------------------------------------------------------------
(* View state controller                                                   *)

\* A performSearch that takes the text of the search box as typed
SearchedFiltersAsTyped(filters, text) == [filters EXCEPT !.search = text]

\* performSearch(), app.js:704-792, run on the filters `filters` with the
\* search box holding `text`: the search field is read from the box, the
\* dataset is filtered and the result is rendered as it stands.
SearchedFilters(filters, text) == [filters EXCEPT !.search = ToLowerCase(text)]

PerformSearch(filters, text) ==
    LET f == SearchedFilters(filters, text)
        result == FilterArtifacts(allArtifacts, f)
    IN  /\ currentFilters' = f
        /\ filteredArtifacts' = result
        /\ RenderArtifacts(result)

\* The quick-category click handler, app.js:588-601
QuickCategory(filterValue) == IF filterValue = all THEN Str0 ELSE filterValue

\* A quick-category click that goes through the debounce of the search box
QuickFilterDebounced(filterValue) ==
    /\ listeners
    /\ activeBtns' = (activeBtns \ QuickFilters) \cup {filterValue}
    /\ currentFilters' = [currentFilters EXCEPT !.category = QuickCategory(filterValue)]
    /\ LET kept == {t \in timers : t.id # timeout}
           new == CHOOSE n \in 1..(Cardinality(kept) + 1) : \A t \in kept : t.id # n
       IN  /\ timers' = kept \cup {[id |-> new, due |-> Wait]}
           /\ timeout' = new
    /\ lastEvent' = "quick"
    /\ UNCHANGED <<filteredArtifacts, grid, visibleCount, searchValue, selects,
                   sortValue, burst>>
    /\ UNCHANGED <<loadVars, modalVars>>

QuickFilter(filterValue) ==
    /\ listeners
    /\ activeBtns' = (activeBtns \ QuickFilters) \cup {filterValue}
    /\ PerformSearch([currentFilters EXCEPT !.category = QuickCategory(filterValue)],
                     searchValue)
    /\ lastEvent' = "quick"
    /\ UNCHANGED <<searchValue, selects, sortValue, timeout, timers, burst>>
    /\ UNCHANGED <<loadVars, modalVars>>

\* updateAdvancedFilters(), app.js:649-670: every field but search is read
\* from its select.
AdvancedFilters(filters, sel) ==
    [filters EXCEPT !.category = sel.category,
                    !.criticality = sel.criticality,
                    !.investigationPhase = sel.investigationPhase,
                    !.attackTechnique = sel.attackTechnique,
                    !.windowsVersion = sel.windowsVersion,
                    !.hive = sel.hive,
                    !.hasTools = sel.hasTools]

UpdateAdvancedFilters(sel) ==
    PerformSearch(AdvancedFilters(currentFilters, sel), searchValue)

\* The user picks another option of one select: its change listener
\* (app.js:619-624) runs updateAdvancedFilters.
ChangeSelect(id, value) ==
    /\ listeners
    /\ value \in OptionsOf(id)
    /\ value # selects[id]
    /\ selects' = [selects EXCEPT ![id] = value]
    /\ UpdateAdvancedFilters(selects')
    /\ lastEvent' = "change"
    /\ UNCHANGED <<searchValue, activeBtns, sortValue, timeout, timers, burst>>
    /\ UNCHANGED <<loadVars, modalVars>>

\* The apply button, app.js:630-635
ApplyFilters ==
    /\ listeners
    /\ UpdateAdvancedFilters(selects)
    /\ lastEvent' = "apply"
    /\ UNCHANGED <<searchValue, selects, activeBtns, sortValue, timeout, timers, burst>>
    /\ UNCHANGED <<loadVars, modalVars>>

\* clearAllFilters(), app.js:673-701
ClearedSearchValueKept == searchValue

ClearedSearchValue == Str0

ClearedBtns == (activeBtns \ QuickFilters) \cup {all}

ClearAllFilters ==
    /\ listeners
    /\ selects' = EmptySelects
    /\ searchValue' = ClearedSearchValue
    /\ activeBtns' = ClearedBtns
    /\ PerformSearch(EmptyFilters, searchValue')
    /\ lastEvent' = "clear"
    /\ burst' = IF timers # {} THEN [burst EXCEPT !.cleared = TRUE] ELSE burst
    /\ UNCHANGED <<sortValue, timeout, timers>>
    /\ UNCHANGED <<loadVars, modalVars>>

\* A sort of the dataset array itself (filteredArtifacts aliasing
\* allArtifacts and sorted in place)
DatasetSortedInPlace(artifacts, sortBy) ==
    Deref(artifacts, SortArtifacts(artifacts, Refs(artifacts), sortBy))

\* [...filteredArtifacts].sort(...), app.js:804, with filteredArtifacts
\* itself a copy (app.js:38) or a filter result (app.js:713): sort()
\* reorders the copy, the dataset array keeps its records and their order.
DatasetAfterSort(artifacts, sortBy) == artifacts

\* A sort of the stored list in place
StoredSortedInPlace(refs, sorted) == sorted

\* [...filteredArtifacts], app.js:804: the sorted array is a copy, the
\* stored filtered list keeps its order.
StoredAfterSort(refs, sorted) == refs

\* handleSort(), app.js:795-827: a sorted copy of filteredArtifacts is
\* rendered; filteredArtifacts and currentFilters stay as they are.
HandleSort(sortBy) ==
    /\ listeners
    /\ sortBy # sortValue
    /\ sortValue' = sortBy
    /\ RenderArtifacts(SortArtifacts(allArtifacts, filteredArtifacts, sortBy))
    /\ filteredArtifacts' =
          StoredAfterSort(filteredArtifacts,
                          SortArtifacts(allArtifacts, filteredArtifacts, sortBy))
    /\ allArtifacts' = DatasetAfterSort(allArtifacts, sortBy)
    /\ lastEvent' = "sort"
    /\ UNCHANGED <<currentFilters, searchValue, selects, activeBtns,
                   timeout, timers, burst>>
    /\ UNCHANGED <<pc, fetchCount, options, listeners>>
    /\ UNCHANGED modalVars

---------------------------------------------------------------------------
(* The debounced search input, app.js:583 and app.js:877-887               *)

\* setTimeout returns a handle that no pending timer has.
NewTimerId(pending) ==
    CHOOSE n \in 1..(Cardinality(pending) + 1) : \A t \in pending : t.id # n

\* clearTimeout(handle)
ClearTimeout(pending, handle) == {t \in pending : t.id # handle}

\* A debounce that starts its timer without clearing the pending one
DebouncedStacking(pending, handle) ==
    LET new == NewTimerId(pending)
    IN  [timers |-> pending \cup {[id |-> new, due |-> Wait]}, timeout |-> new]

\* executedFunction, app.js:879-886: the pending timer of the closure is
\* cleared and a new one is started; the closure keeps the new handle.
Debounced(pending, handle) ==
    LET kept == ClearTimeout(pending, handle)
        new == NewTimerId(kept)
    IN  [timers |-> kept \cup {[id |-> new, due |-> Wait]}, timeout |-> new]

Min(a, b) == IF a < b THEN a ELSE b

\* A keystroke changes the text of the search box; the input listener is the
\* debounced performSearch.
Keystroke(text) ==
    /\ listeners
    /\ text # searchValue
    /\ searchValue' = text
    /\ timers' = Debounced(timers, timeout).timers
    /\ timeout' = Debounced(timers, timeout).timeout
    /\ burst' = IF timers = {}
                THEN [keys |-> 1, fires |-> 0, quiet |-> 0, cleared |-> FALSE]
                ELSE [burst EXCEPT !.keys = Min(burst.keys + 1, MaxKeys), !.quiet = 0,
                                   !.cleared = FALSE]
    /\ lastEvent' = "input"
    /\ UNCHANGED <<currentFilters, filteredArtifacts, selects, activeBtns, sortValue,
                   grid, visibleCount>>
    /\ UNCHANGED <<loadVars, modalVars>>

\* Half the delay passes without an event.  A timer that is due runs before
\* more time passes.
Tick ==
    /\ timers # {}
    /\ \A t \in timers : t.due > 0
    /\ timers' = {[t EXCEPT !.due = t.due - (Wait \div 2)] : t \in timers}
    /\ burst' = [burst EXCEPT !.quiet = Min(burst.quiet + (Wait \div 2), Wait)]
    /\ UNCHANGED <<currentFilters, filteredArtifacts, searchValue, selects, activeBtns,
                   sortValue, grid, visibleCount, timeout, lastEvent>>
    /\ UNCHANGED <<loadVars, modalVars>>

\* A timer whose recomputation filters on the stored filter state without
\* reading the search box
TimerFiresStoredSearch(t) ==
    /\ t \in timers
    /\ t.due = 0
    /\ timers' = {u \in timers \ {t} : u.id # timeout}
    /\ filteredArtifacts' = FilterArtifacts(allArtifacts, currentFilters)
    /\ RenderArtifacts(filteredArtifacts')
    /\ burst' = [burst EXCEPT !.fires = IF burst.fires < 2 THEN burst.fires + 1 ELSE 2]
    /\ lastEvent' = "timer"
    /\ UNCHANGED <<currentFilters, searchValue, selects, activeBtns, sortValue, timeout>>
    /\ UNCHANGED <<loadVars, modalVars>>

\* A due timer runs `later` (app.js:880-883): clearTimeout(timeout), then
\* performSearch().
TimerFires(t) ==
    /\ t \in timers
    /\ t.due = 0
    /\ timers' = ClearTimeout(timers \ {t}, timeout)
    /\ PerformSearch(currentFilters, searchValue)
    /\ burst' = [burst EXCEPT !.fires = Min(burst.fires + 1, 2)]
    /\ lastEvent' = "timer"
    /\ UNCHANGED <<searchValue, selects, activeBtns, sortValue, timeout>>
    /\ UNCHANGED <<loadVars, modalVars>>

NextView ==
    \/ \E filterValue \in QuickFilters : QuickFilter(filterValue)
    \/ \E id \in SelectIds : \E value \in OptionsOf(id) : ChangeSelect(id, value)
    \/ ApplyFilters
    \/ ClearAllFilters
    \/ \E sortBy \in SortKeys : HandleSort(sortBy)
    \/ \E text \in SearchTexts : Keystroke(text)
    \/ Tick
    \/ \E t \in timers : TimerFires(t)

SpecView == Init /\ [][NextLoad \/ NextView]_vars

---------------------------------------------------------------------------
(* Detail view controller                                                  *)

\* A showSection that does not hide the sections shown before
ShowSectionKeeping(active, sectionId) ==
    active \cup (IF sectionId \in Sections THEN {sectionId} ELSE {})

\* showSection(sectionId), app.js:530-542: the content sections of class
\* active afterwards
ShowSection(active, sectionId) ==
    (active \ Sections) \cup (IF sectionId \in Sections THEN {sectionId} ELSE {})

\* The markup written at app.js:157-227 and app.js:282-512 marks the overview
\* navigation item and the overview section active.
MarkupActive == {"overview"}

\* ${obj.f || placeholder}: 1 when the text obj.f is there and not empty
TextCount(artifact, obj, f) ==
    LET v == Nested(artifact, obj, f)
    IN  IF v # <<>> /\ Truthy(v[1]) THEN 1 ELSE 0

\* obj.f as a condition: an array is truthy also when it is empty
Present(artifact, obj, f) == Nested(artifact, obj, f) # <<>>

\* A section that shows n data items, or its placeholder when there is none
ItemsOrPlaceholder(n) == [items |-> n, placeholder |-> n = 0]

\* app.js:284-299: each of the two cards shows its text or its placeholder
OverviewSection(artifact) ==
    LET n == TextCount(artifact, "details", "what")
                + TextCount(artifact, "details", "forensic_value")
    IN  [items |-> n, placeholder |-> n < 2]

\* app.js:302-323
LimitationsSection(artifact) == ItemsOrPlaceholder(Len(ListOr(artifact, "limitations")))

\* app.js:326-362: the lists are written when either field is there, the
\* placeholder when neither is
CorrelationSection(artifact) ==
    [items |-> Len(NestedListOr(artifact, "correlation", "required_for_definitive_conclusions"))
                 + Len(NestedListOr(artifact, "correlation", "strengthens_evidence")),
     placeholder |->
        /\ ~Present(artifact, "correlation", "required_for_definitive_conclusions")
        /\ ~Present(artifact, "correlation", "strengthens_evidence")]

\* app.js:365-375
StructureSection(artifact) == ItemsOrPlaceholder(TextCount(artifact, "details", "structure"))

\* app.js:378-395
ExamplesSection(artifact) ==
    ItemsOrPlaceholder(Len(NestedListOr(artifact, "details", "examples")))

\* typeof tool === 'string', app.js:406.  An element of details.tools is a
\* string, written [chars |-> s], or an object with a name and, optionally,
\* a url and a description.
TypeofString(tool) == "chars" \in DOMAIN tool

\* app.js:405-422: the tools written as an <a class="tool-link">, the
\* objects with a url
ToolLinks(artifact) ==
    LET tools == NestedListOr(artifact, "details", "tools")
    IN  {k \in 1..Len(tools) :
           /\ ~TypeofString(tools[k])
           /\ "url" \in DOMAIN tools[k]
           /\ Truthy(tools[k].url)}

\* app.js:398-429
ToolsSection(artifact) ==
    ItemsOrPlaceholder(Len(NestedListOr(artifact, "details", "tools")))

\* app.js:432-460: three cards, each written only when its data is there;
\* no else branch writes a placeholder
InvestigationSection(artifact) ==
    [items |-> Len(NestedListOr(artifact, "metadata", "investigation_types"))
                 + Len(NestedListOr(artifact, "metadata", "windows_versions"))
                 + TextCount(artifact, "metadata", "criticality"),
     placeholder |-> FALSE]

\* app.js:463-486
ReferencesSection(artifact) ==
    ItemsOrPlaceholder(Len(NestedListOr(artifact, "metadata", "references")))

\* app.js:489-511: the card is written when there is an author name or a
\* date, the placeholder otherwise
ContributionSection(artifact) ==
    IF TextCount(artifact, "author", "name")
          + TextCount(artifact, "contribution", "date_added") > 0
    THEN [items |-> TextCount(artifact, "author", "name")
                      + TextCount(artifact, "author", "github")
                      + TextCount(artifact, "author", "x")
                      + TextCount(artifact, "contribution", "date_added")
                      + TextCount(artifact, "contribution", "version"),
          placeholder |-> FALSE]
    ELSE [items |-> 0, placeholder |-> TRUE]

\* populateModalContent(artifact), app.js:273-513
PopulateModalContent(artifact) ==
    [s \in Sections |->
        IF s = "overview" THEN OverviewSection(artifact)
        ELSE IF s = "limitations" THEN LimitationsSection(artifact)
        ELSE IF s = "correlation" THEN CorrelationSection(artifact)
        ELSE IF s = "structure" THEN StructureSection(artifact)
        ELSE IF s = "examples" THEN ExamplesSection(artifact)
        ELSE IF s = "tools" THEN ToolsSection(artifact)
        ELSE IF s = "investigation" THEN InvestigationSection(artifact)
        ELSE IF s = "references" THEN ReferencesSection(artifact)
        ELSE ContributionSection(artifact)]

\* showEnhancedModal(artifact), app.js:144-249, run by a click on a card.
\* setupModalEventListeners adds one more click listener to #modal and to
\* document each time.
ShowEnhancedModal(ref) ==
    /\ ref \in Range(grid.cards)
    /\ docListeners < MaxOpens
    /\ modal' = [display |-> "block", artifact |-> ref,
                 sections |-> ShowSection(MarkupActive, "overview"),
                 nav |-> MarkupActive,
                 content |-> PopulateModalContent(allArtifacts[ref])]
    /\ bodyOverflow' = "hidden"
    /\ docListeners' = docListeners + 1
    /\ lastEvent' = "open"
    /\ UNCHANGED toolOpens
    /\ UNCHANGED <<loadVars, viewVars>>

\* A navigation click that highlights the item without clearing the others
NavAfterClickKeeping(nav, sectionId) == nav \cup {sectionId}

\* app.js:523-524: the class active is removed from every navigation item
\* and added to the clicked one.
NavAfterClick(nav, sectionId) == {sectionId}

\* A click on a navigation item, app.js:518-525
NavClick(sectionId) ==
    /\ modal.display = "block"
    /\ modal' = [modal EXCEPT !.sections = ShowSection(modal.sections, sectionId),
                              !.nav = NavAfterClick(modal.nav, sectionId)]
    /\ lastEvent' = "nav"
    /\ UNCHANGED <<bodyOverflow, docListeners, toolOpens>>
    /\ UNCHANGED <<loadVars, viewVars>>

\* hideModal(), app.js:830-836
HiddenModal == [modal EXCEPT !.display = "none"]

HideModal ==
    /\ modal' = HiddenModal
    /\ bodyOverflow' = "auto"

\* A click on #close-modal, app.js:547-550
CloseClick ==
    /\ modal.display = "block"
    /\ HideModal
    /\ lastEvent' = "close"
    /\ UNCHANGED <<docListeners, toolOpens>>
    /\ UNCHANGED <<loadVars, viewVars>>

\* A click on #modal itself, outside the modal content, app.js:553-560
BackgroundClick ==
    /\ modal.display = "block"
    /\ HideModal
    /\ lastEvent' = "background"
    /\ UNCHANGED <<docListeners, toolOpens>>
    /\ UNCHANGED <<loadVars, viewVars>>

\* Every click listener that setupModalEventListeners has added to document
\* (app.js:562, once per call, none ever removed) runs on the click.
ListenersRun(registered) == registered

\* A click on the tool link of tool k of the open detail view, with the
\* tools section shown: each listener on document finds the class tool-link
\* on the target (app.js:563), calls trackToolClick when the page defines
\* it (app.js:568-570) and calls window.open (app.js:573).
ToolLinkClick(k) ==
    /\ modal.display = "block"
    /\ "tools" \in modal.sections
    /\ k \in ToolLinks(allArtifacts[modal.artifact])
    /\ toolOpens' = ListenersRun(docListeners)
    /\ lastEvent' = "tool-link"
    /\ UNCHANGED <<modal, bodyOverflow, docListeners>>
    /\ UNCHANGED <<loadVars, viewVars>>

\* The Escape key: app.js registers no keydown or keyup listener, so the
\* key press runs no handler.
KeysHandled == {}

EscapeKey ==
    /\ pc = "ready"
    /\ IF "Escape" \in KeysHandled THEN HideModal ELSE UNCHANGED <<modal, bodyOverflow>>
    /\ lastEvent' = "escape"
    /\ UNCHANGED <<docListeners, toolOpens>>
    /\ UNCHANGED <<loadVars, viewVars>>

NextModal ==
    \/ \E ref \in Range(grid.cards) : ShowEnhancedModal(ref)
    \/ \E sectionId \in Sections : NavClick(sectionId)
    \/ CloseClick
    \/ BackgroundClick
    \/ EscapeKey
    \/ \E k \in 1..MaxTools : ToolLinkClick(k)

SpecModal == Init /\ [][NextLoad \/ NextModal]_vars

---------------------------------------------------------------------------
(* The whole page                                                          *)

Next == NextLoad \/ NextView \/ NextModal

Spec == Init /\ [][Next]_vars

---------------------------------------------------------------------------
(* The filter engine on its own: any dataset, any setting of the controls, *)
(* then the apply button.                                                  *)

\* Longest dataset
MaxLen == 2

Pool == {RecA, RecB, RecC, RecD, RecE, RecF}

RECURSIVE SeqsUpTo(_, _)
SeqsUpTo(S, n) ==
    IF n = 0 THEN {<<>>}
    ELSE LET shorter == SeqsUpTo(S, n - 1)
         IN  shorter \cup {Append(q, x) : q \in {r \in shorter : Len(r) = n - 1}, x \in S}

FilterDatasets == SeqsUpTo(Pool, MaxLen)

FilterOptions ==
    [category |-> {Str0, execution, network},
     criticality |-> {Str0, high, low},
     investigationPhase |-> {Str0, incidentResponse},
     attackTechnique |-> {Str0, persistenceTech},
     windowsVersion |-> {Str0, win10},
     hive |-> {Str0, HKLM},
     hasTools |-> {Str0, yes, no}]

FilterSelects ==
    [category : FilterOptions.category,
     criticality : FilterOptions.criticality,
     investigationPhase : FilterOptions.investigationPhase,
     attackTechnique : FilterOptions.attackTechnique,
     windowsVersion : FilterOptions.windowsVersion,
     hive : FilterOptions.hive,
     hasTools : FilterOptions.hasTools]

\* The page after init(data), app.js:36-42, with the controls set.
InitFilter ==
    /\ \E artifacts \in FilterDatasets :
          /\ allArtifacts = artifacts
          /\ filteredArtifacts = Refs(artifacts)
          /\ grid = RenderedGrid(Refs(artifacts))
          /\ visibleCount = Len(artifacts)
          /\ options = [category |-> MakeDoc(artifacts).categories,
                        windowsVersion |-> MakeDoc(artifacts).statistics.windows_versions]
    /\ pc = "ready"
    /\ fetchCount = 1
    /\ currentFilters = EmptyFilters
    /\ searchValue \in SearchTexts
    /\ selects \in FilterSelects
    /\ activeBtns = {all}
    /\ sortValue = Str0
    /\ listeners = TRUE
    /\ timeout = 0
    /\ timers = {}
    /\ modal = NoModal
    /\ bodyOverflow = ""
    /\ docListeners = 0
    /\ toolOpens = 0
    /\ burst = [keys |-> 0, fires |-> 0, quiet |-> 0, cleared |-> FALSE]
    /\ lastEvent = "init"

SpecFilter == InitFilter /\ [][ApplyFilters]_vars

---------------------------------------------------------------------------
(* The search box on its own: any dataset, no other filter, the user types *)
(* and the debounced performSearch runs.                                   *)

\* Texts typed into the search box: empty, blanks, words in several cases.
SearchStrings ==
    {Str0, <<" ">>, <<" ", " ">>,
     <<"T", "E", "A", "M", "S">>, <<"t", "e", "a", "m", "s">>,
     <<"R", "u", "n">>, <<"ß">>}

SearchPool == {RecA, RecB, RecC, RecF}

SearchDatasets == SeqsUpTo(SearchPool, MaxLen)

\* The page after init(data), app.js:36-42, all controls untouched.
InitSearch ==
    /\ \E artifacts \in SearchDatasets :
          /\ allArtifacts = artifacts
          /\ filteredArtifacts = Refs(artifacts)
          /\ grid = RenderedGrid(Refs(artifacts))
          /\ visibleCount = Len(artifacts)
          /\ options = [category |-> MakeDoc(artifacts).categories,
                        windowsVersion |-> MakeDoc(artifacts).statistics.windows_versions]
    /\ pc = "ready"
    /\ fetchCount = 1
    /\ currentFilters = EmptyFilters
    /\ searchValue = Str0
    /\ selects = EmptySelects
    /\ activeBtns = {all}
    /\ sortValue = Str0
    /\ listeners = TRUE
    /\ timeout = 0
    /\ timers = {}
    /\ modal = NoModal
    /\ bodyOverflow = ""
    /\ docListeners = 0
    /\ toolOpens = 0
    /\ burst = [keys |-> 0, fires |-> 0, quiet |-> 0, cleared |-> FALSE]
    /\ lastEvent = "init"

NextSearch ==
    \/ \E text \in SearchStrings : Keystroke(text)
    \/ Tick
    \/ \E t \in timers : TimerFires(t)

SpecSearch == InitSearch /\ [][NextSearch]_vars

---------------------------------------------------------------------------
(* The sort selector on its own: any dataset, a filter applied or not, and *)
(* every sort key, an unknown one included.                                *)

\* Longest dataset that is sorted
MaxSortLen == 3

SortPool == {RecA, RecB, RecC, RecG, RecH}

SortDatasets == SeqsUpTo(SortPool, MaxSortLen)

\* Values of the sort selector
AllSortKeys ==
    {Str0, sortTitle, sortTitleDesc, sortCategory, sortCriticality, sortRecent,
     sortBogus}

KnownSortKeys == {sortTitle, sortTitleDesc, sortCategory, sortCriticality, sortRecent}

\* Settings of the selects: untouched, a category picked, a criticality
\* picked, an unknown tool-presence value.
SortSelects ==
    {EmptySelects,
     [EmptySelects EXCEPT !.category = execution],
     [EmptySelects EXCEPT !.criticality = high],
     [EmptySelects EXCEPT !.hasTools = maybe]}

\* The page after init(data), app.js:36-42, with the selects set.
InitSort ==
    /\ \E artifacts \in SortDatasets :
          /\ allArtifacts = artifacts
          /\ filteredArtifacts = Refs(artifacts)
          /\ grid = RenderedGrid(Refs(artifacts))
          /\ visibleCount = Len(artifacts)
          /\ options = [category |-> MakeDoc(artifacts).categories,
                        windowsVersion |-> MakeDoc(artifacts).statistics.windows_versions]
    /\ pc = "ready"
    /\ fetchCount = 1
    /\ currentFilters = EmptyFilters
    /\ searchValue = Str0
    /\ selects \in SortSelects
    /\ activeBtns = {all}
    /\ sortValue = Str0
    /\ listeners = TRUE
    /\ timeout = 0
    /\ timers = {}
    /\ modal = NoModal
    /\ bodyOverflow = ""
    /\ docListeners = 0
    /\ toolOpens = 0
    /\ burst = [keys |-> 0, fires |-> 0, quiet |-> 0, cleared |-> FALSE]
    /\ lastEvent = "init"

NextSort ==
    \/ ApplyFilters
    \/ \E sortBy \in AllSortKeys : HandleSort(sortBy)

SpecSort == InitSort /\ [][NextSort]_vars

---------------------------------------------------------------------------
(* The detail view on its own: any dataset, the cards opened, navigated    *)
(* and closed.                                                             *)

DetailPool == {RecA, RecB, RecE, RecFull, RecSparse}

DetailDatasets == SeqsUpTo(DetailPool, MaxLen) \ {<<>>}

\* The page after init(data), app.js:36-42, all controls untouched.
InitDetail ==
    /\ \E artifacts \in DetailDatasets :
          /\ allArtifacts = artifacts
          /\ filteredArtifacts = Refs(artifacts)
          /\ grid = RenderedGrid(Refs(artifacts))
          /\ visibleCount = Len(artifacts)
          /\ options = [category |-> MakeDoc(artifacts).categories,
                        windowsVersion |-> MakeDoc(artifacts).statistics.windows_versions]
    /\ pc = "ready"
    /\ fetchCount = 1
    /\ currentFilters = EmptyFilters
    /\ searchValue = Str0
    /\ selects = EmptySelects
    /\ activeBtns = {all}
    /\ sortValue = Str0
    /\ listeners = TRUE
    /\ timeout = 0
    /\ timers = {}
    /\ modal = NoModal
    /\ bodyOverflow = ""
    /\ docListeners = 0
    /\ toolOpens = 0
    /\ burst = [keys |-> 0, fires |-> 0, quiet |-> 0, cleared |-> FALSE]
    /\ lastEvent = "init"

SpecDetail == InitDetail /\ [][NextModal]_vars

---------------------------------------------------------------------------
(* A page session: the load, then the view handlers and the detail view    *)
(* together, on a few of their inputs.                                     *)

SessionSections == {"tools"}

NextSession ==
    \/ \E filterValue \in {execution} : QuickFilter(filterValue)
    \/ \E value \in {Str0, low} : ChangeSelect("criticality", value)
    \/ ApplyFilters
    \/ ClearAllFilters
    \/ \E sortBy \in {Str0, sortTitle} : HandleSort(sortBy)
    \/ \E text \in SearchTexts : Keystroke(text)
    \/ Tick
    \/ \E t \in timers : TimerFires(t)
    \/ \E ref \in Range(grid.cards) : ShowEnhancedModal(ref)
    \/ \E sectionId \in SessionSections : NavClick(sectionId)
    \/ CloseClick

SpecSession == Init /\ [][NextLoad \/ NextSession]_vars

---------------------------------------------------------------------------
(* Claims                                                                  *)

\* Handlers that recompute the filtered list
FilterEvents == {"timer", "quick", "change", "apply", "clear"}

\* C1: after every filter-affecting event (debounced search firing, quick
\* category click, dropdown change, apply, clear) the rendered list is the
\* filter output ordered by the sort key that is currently selected.
C1_RenderedSortedByKey ==
    lastEvent \in FilterEvents =>
        grid.cards = SortArtifacts(allArtifacts,
                                   FilterArtifacts(allArtifacts, currentFilters),
                                   sortValue)

\* C2: only one category is active at a time: the category field of the
\* filter state, the highlighted quick-category button and the value shown
\* by the category dropdown denote the same category.
C2_OneCategoryActive ==
    pc = "ready" =>
        /\ selects.category = currentFilters.category
        /\ activeBtns = {IF currentFilters.category = Str0 THEN all
                         ELSE currentFilters.category}

C4_CountMatchesRendered ==
    lastEvent \in FilterEvents \cup {"sort"} => visibleCount = Len(grid.cards)

\* C5: search debouncing never stacks timers: at most one debounce timer is
\* pending and it is the one the closure holds; a keystroke leaves exactly
\* the timer it started, with the full delay ahead; a recomputation caused
\* by typing happens only once the delay has passed with no keystroke, and
\* a burst of keystrokes causes exactly one.
C5_DebounceNeverStacks ==
    /\ Cardinality(timers) <= 1
    /\ \A t \in timers : t.id = timeout
    /\ (lastEvent = "input" /\ burst.quiet = 0) =>
          timers = {[id |-> timeout, due |-> Wait]}
    /\ timers # {} => burst.fires = 0 /\ burst.quiet = Wait - (CHOOSE t \in timers : TRUE).due
    /\ (burst.keys > 0 /\ timers = {}) => burst.fires = 1 /\ burst.quiet = Wait

\* C5 witness: the timer has fired after a burst of at least two keystrokes.
C5_Witness ==
    /\ lastEvent = "timer"
    /\ burst.keys >= 2
    /\ burst.fires = 1
    /\ timers = {}

\* C6: while the detail view is open exactly one section is active; opening
\* a record makes overview the active section, also when another section was
\* viewed before; a navigation click makes the clicked section the only
\* active one.
C6_OneActiveSection ==
    modal.display = "block" =>
        /\ Cardinality(modal.sections) = 1
        /\ lastEvent = "open" => modal.sections = {"overview"}
        /\ lastEvent = "nav" => modal.sections = modal.nav

\* C6 witness: the detail view reopened (second opening of the session).
C6_Witness ==
    /\ modal.display = "block"
    /\ lastEvent = "open"
    /\ docListeners = 2

\* C7: each of the three close triggers (close control, background click,
\* cancel key) leaves the detail view closed with page scrolling restored,
\* and scrolling is suspended exactly while the detail view is open.
C7_CloseTriggers ==
    /\ lastEvent \in {"close", "background", "escape"} =>
          modal.display = "none" /\ bodyOverflow # "hidden"
    /\ bodyOverflow = "hidden" <=> modal.display = "block"

\* C8: when the fetch rejects, returns a non-success status or delivers a
\* body that is not JSON, initialization ends in the error display: the grid
\* shows the error message and no cards, no filter option is populated, no
\* listener is installed, and the fetch is issued once only.
C8_LoadFailureShowsError ==
    /\ fetchCount <= 1
    /\ pc = "failed" =>
          /\ grid = [kind |-> "error", cards |-> <<>>]
          /\ options = NoOptions
          /\ allArtifacts = <<>>
          /\ ~listeners
          /\ fetchCount = 1

\* C8 witness: the load has failed on a body that is not JSON.
C8_Witness ==
    /\ pc = "failed"
    /\ lastEvent = "json-error"

\* The predicates of the filter state as the specification words them
\* (section 4.1): an unset field is satisfied.
SpecSearchPredicate(a, f) ==
    \/ f.search = Str0
    \/ Includes(ToLowerCase(JoinSpace(
           <<a.title, a.description, a.category>>
           \o (IF "paths" \in DOMAIN a THEN a.paths ELSE <<>>)
           \o (IF "search_tags" \in DOMAIN a THEN a.search_tags ELSE <<>>)
           \o (IF "metadata" \in DOMAIN a /\ "tags" \in DOMAIN a.metadata
               THEN a.metadata.tags ELSE <<>>))),
                ToLowerCase(f.search))

SpecMember(a, obj, field, v) ==
    /\ obj \in DOMAIN a
    /\ field \in DOMAIN a[obj]
    /\ v \in Range(a[obj][field])

SpecSatisfies(a, f) ==
    /\ SpecSearchPredicate(a, f)
    /\ f.category = Str0 \/ a.category = f.category
    /\ f.criticality = Str0
          \/ ("metadata" \in DOMAIN a /\ "criticality" \in DOMAIN a.metadata
              /\ a.metadata.criticality = f.criticality)
    /\ f.investigationPhase = Str0
          \/ SpecMember(a, "metadata", "investigation_types", f.investigationPhase)
    /\ f.attackTechnique = Str0
          \/ SpecMember(a, "metadata", "investigation_types", f.attackTechnique)
    /\ f.windowsVersion = Str0
          \/ SpecMember(a, "metadata", "windows_versions", f.windowsVersion)
    /\ f.hive = Str0
          \/ ("paths" \in DOMAIN a
              /\ \E p \in Range(a.paths) :
                    \E n \in 0..Len(p) : p = f.hive \o <<"\\">> \o SubSeq(p, Len(p) - n + 1, Len(p)))
    /\ f.hasTools = yes =>
          ("details" \in DOMAIN a /\ "tools" \in DOMAIN a.details
           /\ a.details.tools # <<>>)
    /\ f.hasTools = no =>
          ~("details" \in DOMAIN a /\ "tools" \in DOMAIN a.details
            /\ a.details.tools # <<>>)

StrictlyIncreasing(refs) ==
    \A j, k \in 1..Len(refs) : j < k => refs[j] < refs[k]

\* C9: the filter result is exactly the order-preserving subsequence of the
\* dataset made of the records that satisfy all set predicates; with every
\* field unset it is the full list in original order; with only category = c
\* set it holds a record if and only if the record's category is c.
C9_FilterIsSubsequence ==
    lastEvent = "apply" =>
        /\ StrictlyIncreasing(filteredArtifacts)
        /\ Range(filteredArtifacts) =
              {i \in 1..Len(allArtifacts) : SpecSatisfies(allArtifacts[i], currentFilters)}
        /\ currentFilters = EmptyFilters => filteredArtifacts = Refs(allArtifacts)
        /\ \A c \in {execution, network} :
              currentFilters = [EmptyFilters EXCEPT !.category = c] =>
                  \A i \in 1..Len(allArtifacts) :
                      i \in Range(filteredArtifacts) <=> allArtifacts[i].category = c

\* C9 witness: several predicates set at once, the second and third of three
\* records pass.
C9_Witness ==
    /\ lastEvent = "apply"
    /\ allArtifacts = <<RecB, RecA>>
    /\ currentFilters.category = execution
    /\ currentFilters.criticality = high
    /\ currentFilters.search = <<"r", "u", "n">>
    /\ filteredArtifacts = <<2>>

\* A path that is the hive token, the separator, and anything after
UnderHive(path, h) ==
    /\ Len(path) > Len(h)
    /\ \A k \in 1..Len(h) : path[k] = h[k]
    /\ path[Len(h) + 1] = "\\"

\* C10: the hive filter is a prefix match: with hive = h set, a record
\* passes (the other predicates left aside) if and only if at least one of
\* its paths starts with h followed by the separator; a record whose paths
\* hold h only at a later position, and a record with no paths, do not pass.
C10_HiveIsPrefixMatch ==
    (lastEvent = "apply" /\ currentFilters.hive # Str0) =>
        \A i \in 1..Len(allArtifacts) :
            i \in Range(filteredArtifacts) <=>
                /\ i \in Range(FilterArtifacts(allArtifacts,
                                               [currentFilters EXCEPT !.hive = Str0]))
                /\ "paths" \in DOMAIN allArtifacts[i]
                /\ \E p \in Range(allArtifacts[i].paths) : UnderHive(p, currentFilters.hive)

\* C10 witness: hive HKLM alone is set; the record with HKLM later in a path
\* is dropped, the record with a path under HKLM is kept.
C10_Witness ==
    /\ lastEvent = "apply"
    /\ currentFilters = [EmptyFilters EXCEPT !.hive = HKLM]
    /\ allArtifacts = <<RecB, RecA>>
    /\ filteredArtifacts = <<2>>

\* A string of blanks only (the empty string included)
OnlyBlanks(s) == \A i \in 1..Len(s) : s[i] = " "

\* C11: a search string that is empty or consists only of blanks matches
\* every record: with no other filter set, the recomputation it causes
\* returns the full dataset.
C11_BlankSearchMatchesAll ==
    (lastEvent = "timer" /\ OnlyBlanks(searchValue)
        /\ currentFilters = [EmptyFilters EXCEPT !.search = currentFilters.search]) =>
        filteredArtifacts = Refs(allArtifacts)

\* String.prototype.toUpperCase on one character: the sharp s becomes two
\* letters, a lower-case letter its capital, anything else stays.
UpperChar(c) ==
    IF c = "ß" THEN <<"S", "S">>
    ELSE IF \E u \in DOMAIN LowerOf : LowerOf[u] = c
         THEN <<CHOOSE u \in DOMAIN LowerOf : LowerOf[u] = c>>
    ELSE <<c>>

RECURSIVE ToUpperCase(_)
ToUpperCase(s) ==
    IF Len(s) = 0 THEN Str0 ELSE UpperChar(s[1]) \o ToUpperCase(Tail(s))

\* The result of filtering by the search string s alone
SearchResult(s) ==
    FilterArtifacts(allArtifacts, SearchedFilters(EmptyFilters, s))

\* The searchable text as the specification words it: title, description,
\* category, all paths, all search_tags and all metadata tags, space-joined
\* and lower-cased.
SpecSearchableText(a) ==
    ToLowerCase(JoinSpace(
        <<a.title, a.description, a.category>>
        \o (IF "paths" \in DOMAIN a THEN a.paths ELSE <<>>)
        \o (IF "search_tags" \in DOMAIN a THEN a.search_tags ELSE <<>>)
        \o (IF "metadata" \in DOMAIN a /\ "tags" \in DOMAIN a.metadata
            THEN a.metadata.tags ELSE <<>>)))

IsSubstring(s, text) ==
    \E from \in 1..(Len(text) + 1) :
        /\ from + Len(s) - 1 <= Len(text)
        /\ \A k \in 1..Len(s) : text[from + k - 1] = s[k]

\* C12 as stated: for every search string s, filtering by s, by its
\* upper-cased form and by its lower-cased form gives the same result list,
\* and a record passes exactly when the lower-cased s is a substring of its
\* lower-cased searchable text.
C12_CaseInsensitive ==
    lastEvent = "timer" =>
        /\ filteredArtifacts = SearchResult(ToUpperCase(searchValue))
        /\ filteredArtifacts = SearchResult(ToLowerCase(searchValue))
        /\ \A i \in 1..Len(allArtifacts) :
              i \in Range(filteredArtifacts) <=>
                  IsSubstring(ToLowerCase(searchValue), SpecSearchableText(allArtifacts[i]))

\* A string in which every character has a one-character upper-case form
\* that lower-cases to the character's own lower-case form
SimpleCase(s) ==
    \A i \in 1..Len(s) :
        /\ Len(UpperChar(s[i])) = 1
        /\ LowerChar(UpperChar(s[i])[1]) = LowerChar(s[i])

\* C12 amended: the three result lists agree for every search string whose
\* characters have one-to-one case forms; the substring characterisation
\* holds for every search string.
C12_CaseInsensitiveSimple ==
    lastEvent = "timer" =>
        /\ SimpleCase(searchValue) =>
              /\ filteredArtifacts = SearchResult(ToUpperCase(searchValue))
              /\ filteredArtifacts = SearchResult(ToLowerCase(searchValue))
        /\ \A i \in 1..Len(allArtifacts) :
              i \in Range(filteredArtifacts) <=>
                  IsSubstring(ToLowerCase(searchValue), SpecSearchableText(allArtifacts[i]))

\* C12 witness: the upper-case word TEAMS was typed; the record tagged
\* TEAMS passes, the other does not.
C12_Witness ==
    /\ lastEvent = "timer"
    /\ searchValue = <<"T", "E", "A", "M", "S">>
    /\ allArtifacts = <<RecA, RecB>>
    /\ filteredArtifacts = <<2>>

\* The records that pass the filters f with the hasTools field left unset
PassesButTools(f) ==
    Range(FilterArtifacts(allArtifacts, [f EXCEPT !.hasTools = Str0]))

\* details.tools is present and a non-empty sequence
HasNonEmptyTools(a) ==
    /\ "details" \in DOMAIN a
    /\ "tools" \in DOMAIN a.details
    /\ Len(a.details.tools) >= 1

\* C13: the hasTools filter is tri-state and tolerates absent data: with
\* yes a record passes (the other predicates left aside) exactly when
\* details.tools is a non-empty sequence; with no exactly when details.tools
\* is empty or absent or details is absent; unset passes every record.
C13_HasToolsTriState ==
    lastEvent = "apply" =>
        \A i \in PassesButTools(currentFilters) :
            /\ currentFilters.hasTools = yes =>
                  (i \in Range(filteredArtifacts) <=> HasNonEmptyTools(allArtifacts[i]))
            /\ currentFilters.hasTools = no =>
                  (i \in Range(filteredArtifacts) <=> ~HasNonEmptyTools(allArtifacts[i]))
            /\ currentFilters.hasTools = Str0 => i \in Range(filteredArtifacts)

\* C13 witness: hasTools = no alone, on a record without details and a
\* record with tools: the first passes, the second does not.
C13_Witness ==
    /\ lastEvent = "apply"
    /\ currentFilters = [EmptyFilters EXCEPT !.hasTools = no]
    /\ allArtifacts = <<RecC, RecA>>
    /\ filteredArtifacts = <<1>>

\* The records that pass the filters f with the criticality field left unset
PassesButCriticality(f) ==
    Range(FilterArtifacts(allArtifacts, [f EXCEPT !.criticality = Str0]))

\* C14: with a non-empty criticality filter v a record passes (the other
\* predicates left aside) if and only if its metadata.criticality equals v;
\* a record with no metadata or no criticality never passes.
C14_CriticalityExact ==
    (lastEvent = "apply" /\ currentFilters.criticality # Str0) =>
        /\ \A i \in PassesButCriticality(currentFilters) :
              i \in Range(filteredArtifacts) <=>
                  /\ "metadata" \in DOMAIN allArtifacts[i]
                  /\ "criticality" \in DOMAIN allArtifacts[i].metadata
                  /\ allArtifacts[i].metadata.criticality = currentFilters.criticality
        /\ \A i \in Range(filteredArtifacts) :
              /\ "metadata" \in DOMAIN allArtifacts[i]
              /\ "criticality" \in DOMAIN allArtifacts[i].metadata

\* C14 witness: criticality = high alone, on a record whose metadata has no
\* criticality and a high record: only the second passes.
C14_Witness ==
    /\ lastEvent = "apply"
    /\ currentFilters = [EmptyFilters EXCEPT !.criticality = high]
    /\ allArtifacts = <<RecF, RecA>>
    /\ filteredArtifacts = <<2>>

\* The record shown at position j of the grid
Card(j) == allArtifacts[grid.cards[j]]

\* The tier of a record: 3 high, 2 medium, 1 low, 0 no criticality
Tier(a) ==
    IF "metadata" \notin DOMAIN a \/ "criticality" \notin DOMAIN a.metadata THEN 0
    ELSE IF a.metadata.criticality = high THEN 3
    ELSE IF a.metadata.criticality = medium THEN 2
    ELSE IF a.metadata.criticality = low THEN 1
    ELSE 0

TitleAscending(a, b) == LocaleCompare(a.title, b.title) <= 0

\* C15: sorting by criticality shows the filtered records with every high
\* record before every medium one, every medium before every low, every
\* low before every record with no criticality, and within a tier in
\* ascending title order.
C15_CriticalityTiers ==
    (lastEvent = "sort" /\ sortValue = sortCriticality) =>
        /\ Range(grid.cards) = Range(filteredArtifacts)
        /\ \A j, k \in 1..Len(grid.cards) :
              j < k =>
                  /\ Tier(Card(j)) >= Tier(Card(k))
                  /\ Tier(Card(j)) = Tier(Card(k)) => TitleAscending(Card(j), Card(k))

\* C15 witness: a low record, one without metadata and a medium one, in
\* that order, come out medium, low, unspecified.
C15_Witness ==
    /\ lastEvent = "sort"
    /\ sortValue = sortCriticality
    /\ allArtifacts = <<RecB, RecH, RecG>>
    /\ grid.cards = <<3, 1, 2>>

HasDate(a) == "contribution" \in DOMAIN a /\ "date_added" \in DOMAIN a.contribution

DigitValue ==
    [d \in {"0", "1", "2", "3", "4", "5", "6", "7", "8", "9"} |->
        CHOOSE n \in 0..9 : <<"0", "1", "2", "3", "4", "5", "6", "7", "8", "9">>[n + 1] = d]

\* The day an ISO date string yyyy-mm-dd names, as the number yyyymmdd
DateNumber(d) ==
    LET v(i) == DigitValue[d[i]]
    IN  (v(1) * 1000 + v(2) * 100 + v(3) * 10 + v(4)) * 10000
        + (v(6) * 10 + v(7)) * 100 + v(9) * 10 + v(10)

\* C16: sorting by recent orders the records by contribution.date_added,
\* latest first, equal dates by ascending title; every record with no
\* date_added (or no contribution object) comes after every record that has
\* one, and those records are in ascending title order.
C16_RecentFirst ==
    (lastEvent = "sort" /\ sortValue = sortRecent) =>
        /\ Range(grid.cards) = Range(filteredArtifacts)
        /\ \A j, k \in 1..Len(grid.cards) :
              j < k =>
                  LET a == Card(j)
                      b == Card(k)
                  IN  /\ HasDate(b) => HasDate(a)
                      /\ (HasDate(a) /\ HasDate(b)) =>
                            /\ DateNumber(a.contribution.date_added)
                                  >= DateNumber(b.contribution.date_added)
                            /\ a.contribution.date_added = b.contribution.date_added
                                  => TitleAscending(a, b)
                      /\ (~HasDate(a) /\ ~HasDate(b)) => TitleAscending(a, b)

\* C16 witness: a record with no contribution object, one with the older
\* date and one with the newer date come out newest first, undated last.
C16_Witness ==
    /\ lastEvent = "sort"
    /\ sortValue = sortRecent
    /\ allArtifacts = <<RecB, RecH, RecA>>
    /\ grid.cards = <<3, 2, 1>>

\* The orders in which the records of a list can be given
InputOrders(refs) ==
    {q \in [1..Len(refs) -> Range(refs)] :
        \A j, k \in 1..Len(refs) : q[j] = q[k] => j = k}

\* Two records have the same value of the sort key
SameKey(sortBy, a, b) ==
    IF sortBy = sortCategory THEN a.category = b.category
    ELSE IF sortBy = sortCriticality THEN Tier(a) = Tier(b)
    ELSE IF sortBy = sortRecent THEN
        /\ HasDate(a) <=> HasDate(b)
        /\ HasDate(a) => a.contribution.date_added = b.contribution.date_added
    ELSE TRUE

\* The sorted list is the input list in some order
SortPermutes ==
    /\ Len(grid.cards) = Len(filteredArtifacts)
    /\ Range(grid.cards) = Range(filteredArtifacts)

\* Whatever order the input records are given in, the same records come out
\* at the same positions
SortIgnoresInputOrder ==
    \A q \in InputOrders(filteredArtifacts) :
        Deref(allArtifacts, SortArtifacts(allArtifacts, q, sortValue))
            = Deref(allArtifacts, grid.cards)

\* Records equal on the key and on title keep their input order
SortKeepsEqualsInOrder ==
    \A j, k \in 1..Len(grid.cards) :
        (j < k /\ SameKey(sortValue, Card(j), Card(k)) /\ Card(j).title = Card(k).title)
            => grid.cards[j] < grid.cards[k]

\* C17 as stated: for every known sort key the output is a permutation of
\* the input; when all titles are distinct the output depends only on the
\* set of input records and not on their order; records that compare equal
\* on the key and on title keep their input order.
C17_SortDeterministicStable ==
    (lastEvent = "sort" /\ sortValue \in KnownSortKeys) =>
        /\ SortPermutes
        /\ (\A j, k \in 1..Len(filteredArtifacts) :
                j # k => allArtifacts[filteredArtifacts[j]].title
                            # allArtifacts[filteredArtifacts[k]].title)
              => SortIgnoresInputOrder
        /\ SortKeepsEqualsInOrder

\* C17 amended: the output depends only on the set of input records when
\* no two titles compare equal under localeCompare.
C17_SortDeterministicCollated ==
    (lastEvent = "sort" /\ sortValue \in KnownSortKeys) =>
        /\ SortPermutes
        /\ (\A j, k \in 1..Len(filteredArtifacts) :
                j # k => LocaleCompare(allArtifacts[filteredArtifacts[j]].title,
                                       allArtifacts[filteredArtifacts[k]].title) # 0)
              => SortIgnoresInputOrder
        /\ SortKeepsEqualsInOrder

\* C17 witness: sorting by category a list that holds the same record twice
\* around a record of the same category with another title: the two equal
\* records keep their order.
C17_Witness ==
    /\ lastEvent = "sort"
    /\ sortValue = sortCategory
    /\ allArtifacts = <<RecA, RecB, RecA>>
    /\ grid.cards = <<2, 1, 3>>

\* The dataset sorted first and filtered afterwards
FilteredSorted(f, sortBy) ==
    SelectSeq(SortArtifacts(allArtifacts, Refs(allArtifacts), sortBy),
              LAMBDA i : Passes(allArtifacts[i], f))

\* C18: sorting is independent of filtering: the sorted filtered list that
\* a sort renders is the sequence that filtering the sorted dataset gives;
\* on the dataset A, B, C with category = execution the criticality sort
\* shows A, B and the title sort shows B, A.
C18_SortCommutesWithFilter ==
    lastEvent = "sort" =>
        /\ grid.cards = FilteredSorted(currentFilters, sortValue)
        /\ (allArtifacts = <<RecA, RecB, RecC>> /\ currentFilters.category = execution) =>
              /\ sortValue = sortCriticality => grid.cards = <<1, 2>>
              /\ sortValue = sortTitle => grid.cards = <<2, 1>>

\* C18 witness: the scenario of the specification, category = execution
\* applied and then the title sort selected.
C18_Witness ==
    /\ lastEvent = "sort"
    /\ sortValue = sortTitle
    /\ allArtifacts = <<RecA, RecB, RecC>>
    /\ currentFilters = [EmptyFilters EXCEPT !.category = execution]
    /\ grid.cards = <<2, 1>>

\* C19: an unknown key is a no-op: a sort key outside title, title-desc,
\* category, criticality and recent renders the filtered list in the order
\* it has, and a hasTools value other than yes and no lets every record
\* pass that the other filters let pass.
C19_UnknownKeyIsNoOp ==
    /\ (lastEvent = "sort" /\ sortValue \notin KnownSortKeys) =>
          /\ grid.cards = filteredArtifacts
          /\ StrictlyIncreasing(grid.cards)
    /\ (lastEvent = "apply" /\ currentFilters.hasTools \notin {Str0, yes, no}) =>
          /\ Range(filteredArtifacts) = PassesButTools(currentFilters)
          /\ grid.cards = filteredArtifacts

\* C19 witness: the unknown tool-presence value was applied and then the
\* unknown sort key selected; all three records are shown in load order,
\* which is not their title order.
C19_Witness ==
    /\ lastEvent = "sort"
    /\ sortValue = sortBogus
    /\ currentFilters.hasTools = maybe
    /\ allArtifacts = <<RecA, RecB, RecC>>
    /\ grid.cards = <<1, 2, 3>>

\* C20: for every record and each of the nine detail sections, a section
\* that has no data to show (the optional data feeding it is absent or
\* empty) shows its placeholder text: no section is rendered with neither
\* data nor a placeholder.
C20_SectionsNeverBlank ==
    modal.artifact # 0 =>
        \A s \in Sections :
            modal.content[s].items = 0 => modal.content[s].placeholder

\* C21: the loaded dataset is read-only: no search, filter, sort, clear or
\* detail-view action changes the records of the dataset or their order.
C21_DatasetReadOnly == [][pc = "ready" => allArtifacts' = allArtifacts]_vars

\* C21 witness: a filter has dropped a record, a sort has reordered the
\* rest and the detail view of one of them is open.
C21_Witness ==
    /\ pc = "ready"
    /\ currentFilters.category = execution
    /\ sortValue = sortTitle
    /\ grid.cards = <<2, 1>>
    /\ modal.display = "block"
    /\ lastEvent = "nav"

\* A step of a quick-category click or of a dropdown change
ImmediateFilterStep ==
    /\ lastEvent' \in {"quick", "change"}
    /\ \/ lastEvent' # lastEvent
       \/ activeBtns' # activeBtns
       \/ selects' # selects
       \/ currentFilters' # currentFilters

\* C22: a quick-category click or a dropdown change recomputes and renders
\* the result list in its own step and neither starts, cancels nor waits
\* for a debounce timer, whether or not one is pending.
C22_ImmediateFilterChange ==
    [][ImmediateFilterStep =>
         /\ timers' = timers
         /\ timeout' = timeout
         /\ currentFilters'.search = ToLowerCase(searchValue)
         /\ filteredArtifacts' = FilterArtifacts(allArtifacts, currentFilters')
         /\ grid' = RenderedGrid(filteredArtifacts')]_vars

\* C22 witness: a quick-category click has narrowed the rendered list
\* while the debounce timer of a keystroke is still pending.
C22_Witness ==
    /\ lastEvent = "quick"
    /\ timers # {}
    /\ \A t \in timers : t.due > 0
    /\ currentFilters.category = execution
    /\ grid.cards = <<1, 2>>

\* The records that pass the filters f with both investigation facets unset
PassesButTypes(f) ==
    Range(FilterArtifacts(allArtifacts,
                          [f EXCEPT !.investigationPhase = Str0,
                                    !.attackTechnique = Str0]))

\* v is one of the record's metadata.investigation_types
HasInvestigationType(a, v) ==
    /\ "metadata" \in DOMAIN a
    /\ "investigation_types" \in DOMAIN a.metadata
    /\ \E k \in 1..Len(a.metadata.investigation_types) :
          a.metadata.investigation_types[k] = v

\* C23: the investigation-phase and the attack-technique facet are both
\* membership tests over metadata.investigation_types: a record passes (the
\* other predicates left aside) exactly when every one of the two values
\* that is set is in its investigation_types; a record without that field
\* never passes when one is set, and with both set it holds both values.
C23_InvestigationFacets ==
    lastEvent = "apply" =>
        \A i \in PassesButTypes(currentFilters) :
            i \in Range(filteredArtifacts) <=>
                /\ currentFilters.investigationPhase # Str0 =>
                      HasInvestigationType(allArtifacts[i], currentFilters.investigationPhase)
                /\ currentFilters.attackTechnique # Str0 =>
                      HasInvestigationType(allArtifacts[i], currentFilters.attackTechnique)

\* C23 witness: both facets set, on a record that holds only the phase
\* value and a record that holds both: only the second passes.
C23_Witness ==
    /\ lastEvent = "apply"
    /\ currentFilters = [EmptyFilters EXCEPT !.investigationPhase = incidentResponse,
                                             !.attackTechnique = persistenceTech]
    /\ allArtifacts = <<RecA, RecB>>
    /\ filteredArtifacts = <<2>>

\* A step in which a dropdown other than category changes
OtherDropdownChange ==
    /\ lastEvent' = "change"
    /\ selects' # selects
    /\ selects'.category = selects.category

\* C24: changing a dropdown other than category leaves the category field
\* of the filter state unchanged, so a category chosen with a
\* quick-category button is still applied afterwards.
C24_CategoryKeptOnOtherChange ==
    [][OtherDropdownChange =>
         currentFilters'.category = currentFilters.category]_vars

\* C25: the stored filtered list is always an order-preserving subsequence
\* of the dataset, the filter result in dataset order; selecting a sort key
\* changes neither the stored list nor the filter state, and what it
\* renders is the sort of that filter result.
C25_StoredListInDatasetOrder ==
    [][/\ StrictlyIncreasing(filteredArtifacts')
       /\ Range(filteredArtifacts') \subseteq 1..Len(allArtifacts')
       /\ lastEvent' = "sort" =>
             /\ filteredArtifacts' = filteredArtifacts
             /\ currentFilters' = currentFilters
             /\ filteredArtifacts' = FilterArtifacts(allArtifacts', currentFilters')
             /\ grid'.cards = SortArtifacts(allArtifacts', filteredArtifacts', sortValue')]_vars

\* C25 witness: a category filter has dropped the last record and a title
\* sort shows the other two in the reverse of the stored order.
C25_Witness ==
    /\ lastEvent = "sort"
    /\ sortValue = sortTitle
    /\ currentFilters.category = execution
    /\ filteredArtifacts = <<1, 2>>
    /\ grid.cards = <<2, 1>>

\* C26: one click on a tool link opens the tool URL exactly once, and
\* reports one tool-click event, however many times the detail view has
\* been opened before in the page session.
C26_ToolLinkOpensOnce == lastEvent = "tool-link" => toolOpens = 1

\* C27: while the detail view is open exactly one navigation item is
\* highlighted and it is the item of the active section, from the opening
\* (overview) on and after any sequence of navigation clicks.
C27_OneNavItemHighlighted ==
    modal.display = "block" =>
        /\ Cardinality(modal.nav) = 1
        /\ modal.nav = modal.sections
        /\ lastEvent = "open" => modal.nav = {"overview"}

\* C27 witness: in the second opening of the session, after a click on a
\* navigation item other than overview.
C27_Witness ==
    /\ modal.display = "block"
    /\ lastEvent = "nav"
    /\ modal.nav = {"tools"}
    /\ docListeners = 2

\* A step in which a debounce timer fires
TimerStep == lastEvent' = "timer" /\ timers' # timers

\* C28: a recomputation uses the text of the search input at the moment it
\* runs: a timer that fires after clear-all or after an immediate filter
\* change takes the search text from the box as it is then, keeps every
\* other field of the filter state, and renders the filter of the dataset
\* under that state.
C28_TimerUsesCurrentText ==
    [][TimerStep =>
         /\ searchValue' = searchValue
         /\ currentFilters' = [currentFilters EXCEPT !.search = ToLowerCase(searchValue)]
         /\ burst.cleared => searchValue' = Str0
         /\ filteredArtifacts' = FilterArtifacts(allArtifacts, currentFilters')
         /\ grid' = RenderedGrid(filteredArtifacts')]_vars

\* C28 witness: clear-all ran while the timer of a keystroke was pending
\* and the timer has fired since: the search text is still empty and the
\* full dataset is shown.
C28_Witness ==
    /\ lastEvent = "timer"
    /\ burst.cleared
    /\ burst.fires = 1
    /\ searchValue = Str0
    /\ currentFilters = EmptyFilters
    /\ grid.cards = <<1, 2, 3>>

=============================================================================
